---- MODULE Spec2Model ----
(***************************************************************************)
(* Model of custom_api.py: decomposition of the optional part of a custom  *)
(* URL (InnerPath), the query parameters built from it (CustomGET) and the *)
(* csv serialiser (to_csv).                                                *)
(*                                                                         *)
(* A Python str is a sequence of one-character strings, so that split,     *)
(* strip, isdigit, int and the formatting are modelled by what they do.    *)
(***************************************************************************)
EXTENDS Integers, Sequences, FiniteSets, TLC

VARIABLES
    inner_path,  \* argument of InnerPath.__init__ / CustomGET.__init__
    tokens,      \* local list *tokens* of InnerPath.__init__ (mutated by pops)
    dict,        \* InnerPath.dict: a mapping from key to value
    err,         \* the exception that left the call, if any
    pc,          \* position of the running call
    varname,     \* argument of CustomGET.__init__
    freq,        \* argument of CustomGET.__init__
    params,      \* CustomGET.params
    requests,    \* number of GET requests issued to the endpoint
    dicts,       \* argument of to_csv (the datapoints)
    result       \* value returned by to_csv / get_csv

vars == <<inner_path, tokens, dict, err, pc, varname, freq, params, requests,
          dicts, result>>

----------------------------------------------------------------------------
(* Bounds of the model. *)

\* longest inner path, in '/'-separated segments
MaxSegments == 3
\* longest inner path handed to CustomGET, in segments
MaxGetSegments == 2
\* longest list of datapoints handed to to_csv
MaxRecords == 2

----------------------------------------------------------------------------
(* Python values. *)

\* None: distinct from every str (a str holds one-character strings only)
None == <<"None">>

\* truth value of a str or None, as tested by `if x:` and `x or y`
Truthy(x) == x # None /\ x # <<>>

Range(s) == {s[i] : i \in 1..Len(s)}

DIGITS == <<"0", "1", "2", "3", "4", "5", "6", "7", "8", "9">>

WHITESPACE == {" "}

\* str.isdigit(): every character is a digit and there is at least one
isdigit(x) == Len(x) > 0 /\ \A i \in 1..Len(x) : x[i] \in Range(DIGITS)

RECURSIVE lstrip(_)
lstrip(s) ==
    IF s # <<>> /\ Head(s) \in WHITESPACE THEN lstrip(Tail(s)) ELSE s

RECURSIVE rstrip(_)
rstrip(s) ==
    IF s # <<>> /\ s[Len(s)] \in WHITESPACE
    THEN rstrip(SubSeq(s, 1, Len(s) - 1))
    ELSE s

\* str.strip()
strip(s) == rstrip(lstrip(s))

\* str.split(sep) for a one-character sep: always at least one piece
RECURSIVE split(_, _)
split(s, sep) ==
    IF \A i \in 1..Len(s) : s[i] # sep
    THEN <<s>>
    ELSE LET i == CHOOSE k \in 1..Len(s) :
                      s[k] = sep /\ \A j \in 1..(k - 1) : s[j] # sep
         IN  <<SubSeq(s, 1, i - 1)>> \o split(SubSeq(s, i + 1, Len(s)), sep)

\* sep.join(rows)
RECURSIVE join(_, _)
join(rows, sep) ==
    IF rows = <<>> THEN <<>>
    ELSE IF Len(rows) = 1 THEN rows[1]
    ELSE rows[1] \o sep \o join(Tail(rows), sep)

\* list.index(x): position of the first element equal to x
index(list, x) == CHOOSE i \in 1..Len(list) :
                      list[i] = x /\ \A j \in 1..(i - 1) : list[j] # x

\* list.pop(i): the list without its i-th element
pop(list, i) == SubSeq(list, 1, i - 1) \o SubSeq(list, i + 1, Len(list))

DigitValue(c) == (CHOOSE i \in 1..Len(DIGITS) : DIGITS[i] = c) - 1

\* int(x) for a str of decimal digits
RECURSIVE int(_)
int(x) ==
    IF x = <<>> THEN 0
    ELSE 10 * int(SubSeq(x, 1, Len(x) - 1)) + DigitValue(x[Len(x)])

\* str(n) / '{}'.format(n) for a non-negative integer
RECURSIVE str(_)
str(n) ==
    IF n < 10 THEN <<DIGITS[n + 1]>>
    ELSE str(n \div 10) \o <<DIGITS[(n % 10) + 1]>>

\* zero-padding of a digit string to *width*
RECURSIVE zfill(_, _)
zfill(s, width) == IF Len(s) >= width THEN s ELSE zfill(<<"0">> \o s, width)

----------------------------------------------------------------------------
(* Module constants. *)

ALLOWED_FREQUENCIES == << <<"d">>, <<"w">>, <<"m">>, <<"q">>, <<"a">> >>

ALLOWED_REAL_RATES ==
    << <<"r", "o", "g">>, <<"y", "o", "y">>, <<"b", "a", "s", "e">> >>

ALLOWED_AGGREGATORS == << <<"e", "o", "p">>, <<"a", "v", "g">> >>

ALLOWED_FINALISERS ==
    << <<"i", "n", "f", "o">>, <<"c", "s", "v">>, <<"j", "s", "o", "n">>,
       <<"x", "l", "s", "x">> >>

\* datetime.MINYEAR, datetime.MAXYEAR: date() raises ValueError outside them
MINYEAR == 1
MAXYEAR == 9999

----------------------------------------------------------------------------
(* Exceptions. *)

NoError == [type |-> "none", status_code |-> 0,
            message |-> [text |-> "", args |-> <<>>]]

\* InvalidUsage(message): status_code is the class attribute 400
InvalidUsage(text, args) ==
    [type |-> "InvalidUsage", status_code |-> 400,
     message |-> [text |-> text, args |-> args]]

\* ValueError raised by datetime.date for a year out of range
ValueError(year) ==
    [type |-> "ValueError", status_code |-> 0,
     message |-> [text |-> "year is out of range", args |-> <<year>>]]

----------------------------------------------------------------------------
(* InnerPath. *)

\* tokens = [token.strip() for token in inner_path.split('/') if token]
tokenize(path) ==
    LET pieces == SelectSeq(split(path, "/"), LAMBDA token : token # <<>>)
    IN  [i \in 1..Len(pieces) |-> strip(pieces[i])]

\* date.strftime('%Y-%m-%d'); *pad* tells whether the C library pads %Y of a
\* year below 1000 with zeros (it is platform dependent)
strftime(year, month, day, pad) ==
    (IF pad THEN zfill(str(year), 4) ELSE str(year))
        \o <<"-">> \o zfill(str(month), 2) \o <<"-">> \o zfill(str(day), 2)

\* InnerPath.as_date: the value returned, or the exception raised by date()
as_date(year, month, day, pad) ==
    IF Truthy(year)
    THEN IF int(year) >= MINYEAR /\ int(year) <= MAXYEAR
         THEN [value |-> strftime(int(year), month, day, pad), raised |-> NoError]
         ELSE [value |-> None, raised |-> ValueError(year)]
    ELSE [value |-> year, raised |-> NoError]

\* get_years popping the front of *tokens* instead of the year found
get_years_pop_front(toks) ==
    LET integers == SelectSeq(toks, isdigit)
        one      == Len(integers) \in {1, 2}
        start    == IF one THEN integers[1] ELSE None
        toks1    == IF one THEN pop(toks, 1) ELSE toks
        two      == Len(integers) = 2
        end      == IF two THEN integers[2] ELSE None
        toks2    == IF two THEN pop(toks1, 1) ELSE toks1
    IN  [start |-> start, end |-> end, tokens |-> toks2]

\* get_years taking the first two of any number of digit tokens
get_years_first_two(toks) ==
    LET integers == SelectSeq(toks, isdigit)
        one      == Len(integers) >= 1
        start    == IF one THEN integers[1] ELSE None
        toks1    == IF one THEN pop(toks, index(toks, start)) ELSE toks
        two      == Len(integers) >= 2
        end      == IF two THEN integers[2] ELSE None
        toks2    == IF two THEN pop(toks1, index(toks1, end)) ELSE toks1
    IN  [start |-> start, end |-> end, tokens |-> toks2]

\* InnerPath.get_years: (start, end) and the tokens left after the pops
get_years(toks) ==
    LET integers == SelectSeq(toks, isdigit)
        one      == Len(integers) \in {1, 2}
        start    == IF one THEN integers[1] ELSE None
        toks1    == IF one THEN pop(toks, index(toks, start)) ELSE toks
        two      == Len(integers) = 2
        end      == IF two THEN integers[2] ELSE None
        toks2    == IF two THEN pop(toks1, index(toks1, end)) ELSE toks1
    IN  [start |-> start, end |-> end, tokens |-> toks2]

\* InnerPath.assign_dates: the start date is converted first
assign_dates(toks, pad) ==
    LET years == get_years(toks)
        sd    == as_date(years.start, 1, 1, pad)
        ed    == as_date(years.end, 12, 31, pad)
    IN  IF sd.raised # NoError
        THEN [dict |-> None, tokens |-> years.tokens, raised |-> sd.raised]
        ELSE IF ed.raised # NoError
        THEN [dict |-> None, tokens |-> years.tokens, raised |-> ed.raised]
        ELSE [dict   |-> [start_date |-> sd.value, end_date |-> ed.value],
              tokens |-> years.tokens, raised |-> NoError]

\* InnerPath.assign_values
assign_values(toks, allowed_values) ==
    LET values_found == SelectSeq(allowed_values, LAMBDA p : p \in Range(toks))
    IN  IF values_found = <<>>
        THEN [value |-> None, tokens |-> toks, raised |-> NoError]
        ELSE IF Len(values_found) = 1
        THEN [value  |-> values_found[1],
              tokens |-> pop(toks, index(toks, values_found[1])),
              raised |-> NoError]
        ELSE [value |-> None, tokens |-> toks,
              raised |-> InvalidUsage("", values_found)]

\* the check of lines 89-90 left out
combine_error_never(d) == NoError

\* the check of lines 89-90
combine_error(d) ==
    IF Truthy(d["rate"]) /\ Truthy(d["agg"])
    THEN InvalidUsage("Cannot combine rate and aggregation.", <<>>)
    ELSE NoError

\* the unit without the fallback to the rate
unit_of_no_fallback(toks, d) == IF toks # <<>> THEN toks[1] ELSE None

\* lines 92-95: the unit
unit_of(toks, d) ==
    IF toks # <<>> THEN toks[1]
    ELSE IF Truthy(d["rate"]) THEN d["rate"] ELSE None

\* The statements of InnerPath.__init__ after line 83, each applied to the
\* outcome *r* of the statements before it: r.dict is self.dict, r.tokens the
\* tokens left and r.raised the exception raised, if any (nothing runs after
\* an exception).

\* line 85, 87 or 88: self.dict[key] = self.assign_values(tokens, allowed_values)
then_assign(r, key, allowed_values) ==
    IF r.raised # NoError THEN r
    ELSE LET v == assign_values(r.tokens, allowed_values)
         IN  [dict   |-> IF v.raised # NoError THEN None
                         ELSE r.dict @@ (key :> v.value),
              tokens |-> v.tokens,
              raised |-> v.raised]

\* lines 89-90
then_combine(r) ==
    IF r.raised # NoError THEN r
    ELSE IF combine_error(r.dict) # NoError
    THEN [dict |-> None, tokens |-> r.tokens, raised |-> combine_error(r.dict)]
    ELSE r

\* lines 92-95
then_unit(r) ==
    IF r.raised # NoError THEN r
    ELSE [dict   |-> r.dict @@ ("unit" :> unit_of(r.tokens, r.dict)),
          tokens |-> r.tokens,
          raised |-> NoError]

\* InnerPath.__init__ from line 83 on, for the token list of line 81: the
\* resulting self.dict, the tokens left and the exception raised, if any
Decompose(toks0, pad) ==
    then_unit(
      then_combine(
        then_assign(
          then_assign(
            then_assign(assign_dates(toks0, pad), "fin", ALLOWED_FINALISERS),
            "rate", ALLOWED_REAL_RATES),
          "agg", ALLOWED_AGGREGATORS)))

\* InnerPath(inner_path).get_dict(), or the exception raised
InnerPath(path, pad) == Decompose(tokenize(path), pad)

----------------------------------------------------------------------------
(* The serialiser. *)

\* yield_csv_row without the closing empty row
yield_csv_row_no_last(datapoints) ==
    << <<",">> \o datapoints[1].name >>
        \o [i \in 1..Len(datapoints) |->
                datapoints[i].date \o <<",">> \o str(datapoints[i].value)]

\* yield_csv_row: the rows yielded, in order
yield_csv_row(datapoints) ==
    << <<",">> \o datapoints[1].name >>
        \o [i \in 1..Len(datapoints) |->
                datapoints[i].date \o <<",">> \o str(datapoints[i].value)]
        \o << <<>> >>

to_csv(ds) ==
    IF ds # <<>> THEN join(yield_csv_row(ds), <<"\n">>) ELSE <<>>

----------------------------------------------------------------------------
(* CustomGET. *)

\* make_freq accepting every frequency
make_freq_lenient(f) == [value |-> f, raised |-> NoError]

\* CustomGET.make_freq: the value returned, or the exception raised
make_freq(f) ==
    IF f \notin Range(ALLOWED_FREQUENCIES)
    THEN [value  |-> None,
          raised |-> InvalidUsage("Frequency <{freq}> is not valid", <<f>>)]
    ELSE [value |-> f, raised |-> NoError]

\* CustomGET.make_name
make_name(name, unit) ==
    IF Truthy(unit) THEN name \o <<"_">> \o unit ELSE name

\* make_dates copying both keys whatever their values
make_dates_all(ip) == [key \in {"start_date", "end_date"} |-> ip[key]]

\* CustomGET.make_dates
make_dates(ip) ==
    [key \in {k \in {"start_date", "end_date"} : Truthy(ip[k])} |-> ip[key]]

\* HTTP status of a successful fetch, tested by get_csv
HTTP_OK == 200

----------------------------------------------------------------------------
(* Inputs. *)

\* segments an inner path is made of: finalisers, rates, aggregators, years
\* (one of them out of the range of datetime.date), units, a unit with
\* blanks around it, a blank segment and an empty one
Segments ==
    { <<"c", "s", "v">>, <<"j", "s", "o", "n">>,
      <<"r", "o", "g">>, <<"y", "o", "y">>,
      <<"e", "o", "p">>, <<"a", "v", "g">>,
      <<"2", "0", "1", "5">>, <<"2", "0", "1", "7">>, <<"0">>,
      <<"b", "l", "n">>, <<" ", "u", "s", "d", " ">>,
      <<" ">>, <<>> }

RECURSIVE SeqsUpTo(_, _)
SeqsUpTo(S, n) ==
    IF n = 0 THEN {<<>>}
    ELSE LET shorter == SeqsUpTo(S, n - 1)
         IN  shorter \cup {Append(s, x) : s \in shorter, x \in S}

PathsUpTo(n) == {join(segs, <<"/">>) : segs \in SeqsUpTo(Segments, n)}

EmptyDict == [k \in {} |-> None]

----------------------------------------------------------------------------
(* Specification Spec: one call InnerPath(inner_path), statement by        *)
(* statement.                                                              *)

Init ==
    /\ inner_path \in PathsUpTo(MaxSegments)
    /\ tokens = <<>>
    /\ dict = EmptyDict
    /\ err = NoError
    /\ pc = "tokenize"
    /\ varname = <<>>
    /\ freq = <<>>
    /\ params = EmptyDict
    /\ requests = 0
    /\ dicts = <<>>
    /\ result = None

unused == <<varname, freq, params, requests, dicts, result>>

\* line 81
Tokenize ==
    /\ pc = "tokenize"
    /\ tokens' = tokenize(inner_path)
    /\ pc' = "dates"
    /\ UNCHANGED <<inner_path, dict, err, unused>>

\* line 83
AssignDates ==
    /\ pc = "dates"
    /\ \E pad \in BOOLEAN :
         LET r == assign_dates(tokens, pad)
         IN  /\ tokens' = r.tokens
             /\ IF r.raised # NoError
                THEN /\ err' = r.raised
                     /\ pc' = "raised"
                     /\ UNCHANGED dict
                ELSE /\ dict' = r.dict
                     /\ pc' = "fin"
                     /\ UNCHANGED err
    /\ UNCHANGED <<inner_path, unused>>

\* self.dict[key] = self.assign_values(tokens, allowed_values)
AssignValue(key, allowed_values, next) ==
    LET r == assign_values(tokens, allowed_values)
    IN  /\ tokens' = r.tokens
        /\ IF r.raised # NoError
           THEN /\ err' = r.raised
                /\ pc' = "raised"
                /\ UNCHANGED dict
           ELSE /\ dict' = dict @@ (key :> r.value)
                /\ pc' = next
                /\ UNCHANGED err
        /\ UNCHANGED <<inner_path, unused>>

\* line 85
AssignFin == pc = "fin" /\ AssignValue("fin", ALLOWED_FINALISERS, "rate")

\* line 87
AssignRate == pc = "rate" /\ AssignValue("rate", ALLOWED_REAL_RATES, "agg")

\* line 88
AssignAgg == pc = "agg" /\ AssignValue("agg", ALLOWED_AGGREGATORS, "combine")

\* lines 89-90
CheckCombine ==
    /\ pc = "combine"
    /\ IF combine_error(dict) # NoError
       THEN /\ err' = combine_error(dict)
            /\ pc' = "raised"
       ELSE /\ pc' = "unit"
            /\ UNCHANGED err
    /\ UNCHANGED <<inner_path, tokens, dict, unused>>

\* lines 92-95
AssignUnit ==
    /\ pc = "unit"
    /\ dict' = dict @@ ("unit" :> unit_of(tokens, dict))
    /\ pc' = "done"
    /\ UNCHANGED <<inner_path, tokens, err, unused>>

Next ==
    \/ Tokenize
    \/ AssignDates
    \/ AssignFin
    \/ AssignRate
    \/ AssignAgg
    \/ CheckCombine
    \/ AssignUnit

Spec == Init /\ [][Next]_vars

----------------------------------------------------------------------------
(* Specification SpecGet: CustomGET(domain, varname, freq, inner_path)     *)
(* followed by calls of get_csv on the object constructed.                 *)

\* most calls of get_csv on one object
MaxCalls == 2

Varnames == { <<"G", "D", "P">>, <<"U", "S", "D", "R", "U", "R">> }

\* the allowed frequencies, one that is not, the empty one and a doubled one
Frequencies ==
    Range(ALLOWED_FREQUENCIES) \cup { <<"z">>, <<>>, <<"m", "m">> }

Datapoint(name, date, value) == [name |-> name, date |-> date, value |-> value]

SampleName == <<"G", "D", "P">>
SampleDates == << <<"2", "0", "1", "5", "-", "0", "3", "-", "3", "1">>,
                  <<"2", "0", "1", "5", "-", "0", "6", "-", "3", "0">> >>

\* what the endpoint may answer: a status and, with 200, a list of datapoints
Responses ==
    { [status_code |-> 500, json |-> <<>>],
      [status_code |-> HTTP_OK, json |-> <<>>],
      [status_code |-> HTTP_OK,
       json |-> << Datapoint(SampleName, SampleDates[1], 17),
                   Datapoint(SampleName, SampleDates[2], 9) >>] }

InitGet ==
    /\ inner_path \in PathsUpTo(MaxGetSegments)
    /\ varname \in Varnames
    /\ freq \in Frequencies
    /\ tokens = <<>>
    /\ dict = EmptyDict
    /\ err = NoError
    /\ pc = "construct"
    /\ params = EmptyDict
    /\ requests = 0
    /\ dicts = <<>>
    /\ result = None

\* CustomGET.__init__, lines 184-187, for the outcome *ip* of
\* InnerPath(inner_path) and the outcome *f* of make_freq(freq)
ConstructFrom(ip, f) ==
    /\ IF ip.raised # NoError
       THEN /\ err' = ip.raised
            /\ pc' = "raised"
            /\ UNCHANGED <<dict, params>>
       ELSE IF f.raised # NoError
       THEN /\ err' = f.raised
            /\ pc' = "raised"
            /\ dict' = ip.dict
            /\ UNCHANGED params
       ELSE /\ params' = [name |-> make_name(varname, ip.dict["unit"]),
                          freq |-> f.value] @@ make_dates(ip.dict)
            /\ dict' = ip.dict
            /\ pc' = "constructed"
            /\ UNCHANGED err
    /\ UNCHANGED <<inner_path, tokens, varname, freq, requests, dicts, result>>

\* CustomGET.__init__
Construct ==
    /\ pc = "construct"
    /\ \E pad \in BOOLEAN :
           ConstructFrom(InnerPath(inner_path, pad), make_freq(freq))

\* CustomGET.get_csv, lines 190-196: one GET request and its answer
GetCsv ==
    /\ pc \in {"constructed", "returned", "fetch_failed"}
    /\ requests < MaxCalls
    /\ requests' = requests + 1
    /\ \E r \in Responses :
         IF r.status_code = HTTP_OK
         THEN /\ dicts' = r.json
              /\ result' = to_csv(r.json)
              /\ err' = NoError
              /\ pc' = "returned"
         ELSE /\ err' = InvalidUsage("Cannot read from {endpoint}.", <<>>)
              /\ pc' = "fetch_failed"
              /\ UNCHANGED <<dicts, result>>
    /\ UNCHANGED <<inner_path, tokens, dict, varname, freq, params>>

NextGet ==
    \/ Construct
    \/ GetCsv

SpecGet == InitGet /\ [][NextGet]_vars

----------------------------------------------------------------------------
(* Specification SpecCsv: one call to_csv(dicts).                          *)

SampleNames == { <<"G", "D", "P">>, <<"U", "S", "D">> }

SampleValues == {0, 7, 120}

Datapoints ==
    {Datapoint(n, SampleDates[d], v) :
         n \in SampleNames, d \in 1..Len(SampleDates), v \in SampleValues}

InitCsv ==
    /\ dicts \in SeqsUpTo(Datapoints, MaxRecords)
    /\ result = None
    /\ pc = "to_csv"
    /\ inner_path = <<>>
    /\ tokens = <<>>
    /\ dict = EmptyDict
    /\ err = NoError
    /\ varname = <<>>
    /\ freq = <<>>
    /\ params = EmptyDict
    /\ requests = 0

\* lines 217-222
ToCsv ==
    /\ pc = "to_csv"
    /\ result' = to_csv(dicts)
    /\ pc' = "returned"
    /\ UNCHANGED <<inner_path, tokens, dict, err, varname, freq, params,
                   requests, dicts>>

NextCsv == ToCsv

SpecCsv == InitCsv /\ [][NextCsv]_vars

----------------------------------------------------------------------------
(* Vocabulary of the properties of InnerPath. *)

\* the token sequence of line 81, before any pop
Tokens0 == tokenize(inner_path)

DigitTokens(toks) == SelectSeq(toks, isdigit)

Classified == Range(ALLOWED_FINALISERS) \cup Range(ALLOWED_REAL_RATES)
                  \cup Range(ALLOWED_AGGREGATORS)

\* number of elements of *toks* that belong to the set S
Count(toks, S) == Cardinality({i \in 1..Len(toks) : toks[i] \in S})

\* the statements after the one at position *at* have been reached without
\* an exception of the statement at *at* or of an earlier one
Passed(at) ==
    CASE at = "dates"   -> pc \in {"fin", "rate", "agg", "combine", "unit", "done"}
      [] at = "fin"     -> pc \in {"rate", "agg", "combine", "unit", "done"}
      [] at = "rate"    -> pc \in {"agg", "combine", "unit", "done"}
      [] at = "agg"     -> pc \in {"combine", "unit", "done"}
      [] at = "combine" -> pc \in {"unit", "done"}

\* the call has returned or raised
Ended == pc \in {"done", "raised"}

StartOfYear == <<"-", "0", "1", "-", "0", "1">>
EndOfYear == <<"-", "1", "2", "-", "3", "1">>

Has(key) == key \in DOMAIN dict

\* all rearrangements of the sequence *toks*
Rearrangements(toks) ==
    LET n == Len(toks)
        bijections == {f \in [1..n -> 1..n] : \A i, j \in 1..n : f[i] = f[j] => i = j}
    IN  {[i \in 1..n |-> toks[f[i]]] : f \in bijections}

\* the elements of *toks* at the positions *keep*, in their order
Pick(toks, keep) ==
    LET at == SelectSeq([i \in 1..Len(toks) |-> i], LAMBDA i : i \in keep)
    IN  [j \in 1..Len(at) |-> toks[at[j]]]

\* the tokens of *toks* other than the finaliser, rate and aggregator tokens
\* that occur exactly once in it, in their order
Anchored(toks) ==
    SelectSeq(toks, LAMBDA t : ~(t \in Classified /\ Count(toks, {t}) = 1))

IncompatibleTransform ==
    InvalidUsage("Cannot combine rate and aggregation.", <<>>)

\* the ambiguous-classification error: InvalidUsage carrying a list of
\* at least two values
IsAmbiguity(e) ==
    e.type = "InvalidUsage" /\ e.message.text = "" /\ Len(e.message.args) >= 2

----------------------------------------------------------------------------
(* C1 *)

\* C1 (as claimed, for inner paths whose tokens are non-empty and pairwise
\* distinct): when the decomposition of an inner path succeeds, every
\* permutation of its tokens decomposes successfully to the same mapping.
C1_AnyPermutationSameMapping ==
    (/\ pc = "done"
     /\ \A i \in 1..Len(Tokens0) : Tokens0[i] # <<>>
     /\ \A i, j \in 1..Len(Tokens0) : Tokens0[i] = Tokens0[j] => i = j)
    => \E pad \in BOOLEAN : \A q \in Rearrangements(Tokens0) :
           /\ Decompose(q, pad).raised = NoError
           /\ Decompose(q, pad).dict = dict

\* C1 (amended): when the decomposition of an inner path succeeds, every
\* permutation of its tokens that moves only finaliser, rate and aggregator
\* tokens occurring once (every other token keeps its place relative to the
\* other such tokens) decomposes successfully to the same mapping.
C1_ClassifiedTokensMoveFreely ==
    pc = "done"
    => \E pad \in BOOLEAN : \A q \in Rearrangements(Tokens0) :
           Anchored(q) = Anchored(Tokens0)
           => /\ Decompose(q, pad).raised = NoError
              /\ Decompose(q, pad).dict = dict

\* a decomposition has succeeded for a path holding a finaliser, a year and
\* an aggregator, which have rearrangements that keep the years in order
C1_Witness ==
    /\ pc = "done"
    /\ Len(Tokens0) = 3
    /\ dict["fin"] # None /\ dict["agg"] # None /\ dict["start_date"] # None
    /\ \E q \in Rearrangements(Tokens0) :
           q # Tokens0 /\ Anchored(q) = Anchored(Tokens0)

----------------------------------------------------------------------------
(* C2 *)

HasRateAndAgg ==
    /\ Count(Tokens0, Range(ALLOWED_REAL_RATES)) >= 1
    /\ Count(Tokens0, Range(ALLOWED_AGGREGATORS)) >= 1

----------------------------------------------------------------------------
(* C3 *)

\* C3 (as claimed): two tokens of one category, the same value twice
\* included, make assign_values raise the ambiguity error with the list of
\* values found; after a successful decomposition no token of the three sets
\* is left in the token sequence.
C3_TwoOfACategoryAreAmbiguous ==
    /\ \A c \in {<<"fin", ALLOWED_FINALISERS>>, <<"rate", ALLOWED_REAL_RATES>>,
                 <<"agg", ALLOWED_AGGREGATORS>>} :
           Passed(c[1]) => Count(Tokens0, Range(c[2])) <= 1
    /\ (pc = "raised" /\ IsAmbiguity(err))
           => \A i \in 1..Len(err.message.args) :
                  err.message.args[i] \in Range(Tokens0)
    /\ pc = "done" => \A i \in 1..Len(tokens) : tokens[i] \notin Classified

----------------------------------------------------------------------------
(* C4 *)

\* C4 (as claimed): no digit token: no dates and no token removed; one digit
\* token Y: start_date 'Y-01-01', no end_date, that token removed; two digit
\* tokens: start_date 'Y1-01-01', end_date 'Y2-12-31', both removed; the
\* other tokens keep their order.
C4_YearExtraction ==
    LET D == DigitTokens(Tokens0)
    IN  (pc \notin {"tokenize", "dates"} /\ Len(D) <= 2)
        => /\ Has("start_date") /\ Has("end_date")
           /\ dict["start_date"] = IF Len(D) >= 1 THEN D[1] \o StartOfYear ELSE None
           /\ dict["end_date"] = IF Len(D) = 2 THEN D[2] \o EndOfYear ELSE None
           /\ pc = "fin" => tokens = SelectSeq(Tokens0, LAMBDA t : ~isdigit(t))

----------------------------------------------------------------------------
(* C5 *)

\* C5: after a successful decomposition the unit is the first token left,
\* if one is left, else the rate, if one was found, else None; the tokens
\* left are in their original order; the empty inner path gives six None.
C5_UnitResolution ==
    /\ pc = "done"
           => /\ tokens # <<>> => dict["unit"] = Head(tokens)
              /\ (tokens = <<>> /\ dict["rate"] # None) => dict["unit"] = dict["rate"]
              /\ (tokens = <<>> /\ dict["rate"] = None) => dict["unit"] = None
              /\ \E keep \in SUBSET (1..Len(Tokens0)) : tokens = Pick(Tokens0, keep)
    /\ inner_path = <<>>
           => /\ pc # "raised"
              /\ pc = "done"
                     => /\ DOMAIN dict = {"start_date", "end_date", "fin", "rate",
                                          "agg", "unit"}
                        /\ \A k \in DOMAIN dict : dict[k] = None

\* a decomposition has returned with no token left and the rate as the unit
C5_Witness ==
    /\ pc = "done"
    /\ dict["rate"] # None
    /\ tokens = <<>>
    /\ dict["unit"] = dict["rate"]

----------------------------------------------------------------------------
(* C6 *)

\* a CustomGET object exists
Constructed == pc \in {"constructed", "returned", "fetch_failed"}

\* C6: the params of a constructed CustomGET hold name and freq, and
\* start_date / end_date exactly when the decomposition gave that date; name
\* is varname_unit when there is a unit (neither None nor empty) and varname
\* otherwise; no value is None or empty; fin, rate and agg are no keys.
C6_ParamsOfConstructed ==
    Constructed
    => /\ DOMAIN params = {"name", "freq"}
              \cup {k \in {"start_date", "end_date"} : dict[k] # None}
       /\ \A k \in DOMAIN params \cap {"start_date", "end_date"} :
              params[k] = dict[k]
       /\ params["freq"] = freq
       /\ params["name"] = IF dict["unit"] # None /\ dict["unit"] # <<>>
                           THEN varname \o <<"_">> \o dict["unit"]
                           ELSE varname
       /\ \A k \in DOMAIN params : params[k] # None /\ params[k] # <<>>
       /\ DOMAIN params \cap {"fin", "rate", "agg"} = {}

\* an object constructed from a path with a unit, a year and a finaliser
C6_Witness ==
    /\ pc = "constructed"
    /\ dict["unit"] # None /\ dict["unit"] # <<>>
    /\ dict["start_date"] # None
    /\ dict["end_date"] = None
    /\ "start_date" \in DOMAIN params

----------------------------------------------------------------------------
(* C7 *)

\* the inner path does not decompose
PathRejected == \A pad \in BOOLEAN : InnerPath(inner_path, pad).raised # NoError

FreqRejected == \A i \in 1..Len(ALLOWED_FREQUENCIES) : freq # ALLOWED_FREQUENCIES[i]

\* C7: an inner path that does not decompose or a frequency outside
\* d, w, m, q, a makes the construction of CustomGET raise: no object, no
\* params and no result exist then and no GET request is ever issued; the
\* error of a frequency carries it, and an allowed frequency is passed on
\* unchanged.
C7_FailFast ==
    /\ (PathRejected \/ FreqRejected)
           => /\ pc \in {"construct", "raised"}
              /\ requests = 0
    /\ pc = "raised"
           => /\ PathRejected \/ FreqRejected
              /\ requests = 0
              /\ params = EmptyDict
              /\ result = None
              /\ PathRejected => \E pad \in BOOLEAN :
                                     err = InnerPath(inner_path, pad).raised
              /\ ~PathRejected
                     => /\ err.type = "InvalidUsage"
                        /\ err.message.args = <<freq>>
    /\ Constructed => ~FreqRejected /\ params["freq"] = freq

\* the construction has raised for a frequency that is not allowed
C7_Witness ==
    /\ pc = "raised"
    /\ FreqRejected
    /\ ~PathRejected
    /\ err.message.args = <<freq>>

----------------------------------------------------------------------------
(* C8 *)

\* C8: to_csv of an empty list is the empty string; of n records it is the
\* line ',<name of the first record>' followed by one line '<date>,<value>'
\* per record, in the order of the records, every line ended by a newline.
C8_CsvText ==
    pc = "returned"
    => IF dicts = <<>>
       THEN result = <<>>
       ELSE LET lines == split(result, "\n")
                n     == Len(dicts)
            IN  /\ Len(lines) = n + 2
                /\ lines[1] = <<",">> \o dicts[1].name
                /\ \A i \in 1..n :
                       LET cells == split(lines[i + 1], ",")
                       IN  /\ Len(cells) = 2
                           /\ cells[1] = dicts[i].date
                           /\ int(cells[2]) = dicts[i].value
                           /\ isdigit(cells[2])
                /\ lines[n + 2] = <<>>
                /\ result[Len(result)] = "\n"

\* the text of two equal records
C8_Witness ==
    /\ pc = "returned"
    /\ Len(dicts) = 2
    /\ dicts[1] = dicts[2]
    /\ result # <<>>

----------------------------------------------------------------------------
(* C9 *)

\* C9 (as claimed): the tokens built from the inner path are non-empty and
\* trimmed, one per non-empty segment, in the order of the segments.
C9_TokensNonEmptyTrimmed ==
    pc = "dates"
    => /\ \A i \in 1..Len(tokens) : tokens[i] # <<>> /\ strip(tokens[i]) = tokens[i]
       /\ tokens = SelectSeq([i \in 1..Len(split(inner_path, "/")) |->
                                  strip(split(inner_path, "/")[i])],
                             LAMBDA t : t # <<>>)

----------------------------------------------------------------------------
(* C10 *)

\* C10 (as claimed): with more than two digit tokens the first becomes the
\* start year, the second the end year, both are removed, nothing is raised.
C10_FirstTwoYearsTaken ==
    LET D == DigitTokens(Tokens0)
    IN  (pc = "fin" /\ Len(D) > 2)
        => /\ dict["start_date"] # None
           /\ dict["end_date"] # None
           /\ Len(tokens) = Len(Tokens0) - 2

\* C10 (amended): with more than two digit tokens year extraction takes
\* none: start_date and end_date are None, no token is removed and nothing
\* is raised by the extraction, whatever the digit tokens are.
C10_NoYearTakenOfThree ==
    LET D == DigitTokens(Tokens0)
    IN  (pc \notin {"tokenize", "dates"} /\ Len(D) > 2)
        => /\ Has("start_date") /\ Has("end_date")
           /\ dict["start_date"] = None
           /\ dict["end_date"] = None
           /\ pc = "fin" => tokens = Tokens0

\* year extraction has run on three digit tokens
C10_Witness == pc = "fin" /\ Len(DigitTokens(Tokens0)) > 2

----------------------------------------------------------------------------
(* C11 *)

\* C11 (as claimed): whenever InnerPath (or the construction of CustomGET)
\* raises, the exception is InvalidUsage with status code 400; no exception
\* of another kind leaves the call, whatever the digit tokens are.
C11_OnlyInvalidUsageEscapes ==
    pc = "raised" => err.type = "InvalidUsage" /\ err.status_code = 400

====
